---- MODULE Spec2Model ----
(***************************************************************************)
(* A model of bigearthnet/pl_modules/lightning_module.py: the LitModel     *)
(* hooks (configure_optimizers, on_train_start, the three step hooks, the  *)
(* three epoch-end hooks, log_metrics, update_best_metric), the epoch      *)
(* aggregation of _generic_epoch_end, and the order in which a trainer     *)
(* calls the hooks.                                                        *)
(*                                                                         *)
(* Scalars are exact rationals [n, d] in lowest terms (d > 0), so that     *)
(* equal metric values are equal records; floating-point rounding is not   *)
(* modelled.  The model's forward pass and the BCE loss are inputs: a      *)
(* StepOutput carries a loss, a target matrix and a logit matrix.          *)
(***************************************************************************)
EXTENDS Integers, Sequences, FiniteSets, TLC

(***************************************************************************)
(* Bounds of the model.                                                    *)
(***************************************************************************)
\* width of the targets / logits (num_classes)
NumClasses == 2
\* epochs of a fit run
MaxEpochs == 2
\* batches a data loader delivers in one phase of a run
MaxBatches == 2
\* samples of a buffer handed to the aggregation on its own (SpecAgg)
MaxSamples == 2
\* classes of the widest dataset whose test phase is logged (SpecFig): one
\* more than the figure's grid has axes
MaxClassCount == 46

(***************************************************************************)
(* Program constants.                                                      *)
(***************************************************************************)
\* init_metrics["best_metrics/loss"]
InitLoss == 99999
\* plt.subplots(9, 5)
GridRows == 9
GridCols == 5
\* label[0:20]
TitleCut == 20

(***************************************************************************)
(* Rationals.                                                              *)
(***************************************************************************)
RECURSIVE GCD(_, _)
GCD(a, b) == IF b = 0 THEN a ELSE GCD(b, a % b)

\* n / d in lowest terms, for n >= 0 and d > 0
Rat(n, d) == LET g == GCD(n, d) IN [n |-> n \div g, d |-> d \div g]

Zero == Rat(0, 1)
RatLess(a, b) == a.n * b.d < b.n * a.d
RatAdd(a, b) == Rat(a.n * b.d + b.n * a.d, a.d * b.d)
RatMul(a, b) == Rat(a.n * b.n, a.d * b.d)
\* a / b for b > 0
RatDiv(a, b) == Rat(a.n * b.d, a.d * b.n)

RECURSIVE RatSum(_)
RatSum(s) == IF s = <<>> THEN Zero ELSE RatAdd(Head(s), RatSum(Tail(s)))

(***************************************************************************)
(* Sequences.                                                              *)
(***************************************************************************)
RECURSIVE Concat(_)
Concat(ss) == IF ss = <<>> THEN <<>> ELSE Head(ss) \o Concat(Tail(ss))

Min2(a, b) == IF a < b THEN a ELSE b

(***************************************************************************)
(* Inputs.  A StepOutput is what _generic_step returns for one batch:      *)
(* [loss, targets, logits], the targets a matrix of 0/1 rows and the       *)
(* logits a matrix of integer rows, one row per sample.                    *)
(***************************************************************************)
Classes == 1..NumClasses
TargetRows == [Classes -> {0, 1}]
LogitValues == {-1, 0, 1}
LogitRows == [Classes -> LogitValues]

\* the row with b in every column, and the row with a in column 1 and b elsewhere
Row(b) == [c \in Classes |-> b]
Row1(a, b) == [c \in Classes |-> IF c = 1 THEN a ELSE b]

\* _generic_step: the forward pass and the loss are the collaborators'; the
\* hook returns them with the batch's labels
_generic_step(loss, targets, logits) ==
    [loss |-> loss, targets |-> targets, logits |-> logits]

(***************************************************************************)
(* _generic_epoch_end: the reduction of a phase's step outputs.            *)
(***************************************************************************)
\* torch.sigmoid(logits) > 0.5, cast to the targets' dtype: sigmoid(x) > 0.5
\* exactly when x > 0
Threshold(logit) == IF logit > 0 THEN 1 ELSE 0
PredRow(row) == [c \in DOMAIN row |-> Threshold(row[c])]
PredRows(m) == [i \in DOMAIN m |-> PredRow(m[i])]

\* all_targets / all_preds / all_loss after the loop over step_outputs
AllTargets(step_outputs) ==
    Concat([k \in DOMAIN step_outputs |-> step_outputs[k].targets])
AllPreds(step_outputs) ==
    Concat([k \in DOMAIN step_outputs |-> PredRows(step_outputs[k].logits)])
AllLoss(step_outputs) ==
    [k \in DOMAIN step_outputs |-> Rat(step_outputs[k].loss, 1)]

\* number of columns of a row matrix
Width(m) == IF m = <<>> THEN 0 ELSE Len(m[1])

\* np.count_nonzero(..., axis=0)[c]
CountCol(m, c) == Cardinality({i \in DOMAIN m : m[i][c] # 0})
BothRows(y_true, y_pred) ==
    [i \in DOMAIN y_true |-> [c \in DOMAIN y_true[i] |-> y_true[i][c] * y_pred[i][c]]]

\* the matrix laid out with predictions down the rows: [[tn, fn], [fp, tp]]
ClassConfMatTransposed(y_true, y_pred, c) ==
    LET tp == CountCol(BothRows(y_true, y_pred), c)
        fp == CountCol(y_pred, c) - tp
        fn == CountCol(y_true, c) - tp
        tn == Len(y_true) - tp - fp - fn
    IN  << <<tn, fn>>, <<fp, tp>> >>

\* sklearn's multilabel_confusion_matrix on indicator matrices: per class
\* [[tn, fp], [fn, tp]], tn by subtraction from the number of rows
ClassConfMat(y_true, y_pred, c) ==
    LET tp == CountCol(BothRows(y_true, y_pred), c)
        fp == CountCol(y_pred, c) - tp
        fn == CountCol(y_true, c) - tp
        tn == Len(y_true) - tp - fp - fn
    IN  << <<tn, fp>>, <<fn, tp>> >>

multilabel_confusion_matrix(y_true, y_pred) ==
    [c \in 1..Width(y_true) |-> ClassConfMat(y_true, y_pred, c)]

RECURSIVE SumCell(_, _, _)
SumCell(mcm, r, k) ==
    IF mcm = <<>> THEN 0 ELSE Head(mcm)[r][k] + SumCell(Tail(mcm), r, k)

\* zero_division = 1: a ratio with a zero denominator is 1
PrfDivideOne(num, den) == IF den = 0 THEN Rat(1, 1) ELSE Rat(num, den)

\* sklearn's _prf_divide: 0 where the denominator is 0
PrfDivide(num, den) == IF den = 0 THEN Zero ELSE Rat(num, den)

\* average="macro": the ratios are taken per class and then averaged
precision_recall_fscore_support_macro(y_true, y_pred) ==
    LET mcm == multilabel_confusion_matrix(y_true, y_pred)
        n == Len(mcm)
        P(c) == PrfDivide(mcm[c][2][2], mcm[c][2][2] + mcm[c][1][2])
        R(c) == PrfDivide(mcm[c][2][2], mcm[c][2][2] + mcm[c][2][1])
        F(c) == IF RatAdd(P(c), R(c)).n = 0 THEN Zero
                ELSE RatDiv(RatMul(Rat(2, 1), RatMul(P(c), R(c))), RatAdd(P(c), R(c)))
        Mean(G(_)) == RatDiv(RatSum([c \in 1..n |-> G(c)]), Rat(n, 1))
    IN  [precision |-> Mean(P), recall |-> Mean(R), f1_score |-> Mean(F)]

\* sklearn's precision_recall_fscore_support(average="micro"): the per-class
\* tp, pred and true counts are summed over the classes before the ratios;
\* the F-score is (1 + beta^2) p r / (beta^2 p + r) with beta = 1, and 0
\* when its denominator is 0
precision_recall_fscore_support(y_true, y_pred) ==
    LET mcm == multilabel_confusion_matrix(y_true, y_pred)
        tp_sum == SumCell(mcm, 2, 2)
        pred_sum == tp_sum + SumCell(mcm, 1, 2)
        true_sum == tp_sum + SumCell(mcm, 2, 1)
        prec == PrfDivide(tp_sum, pred_sum)
        rec == PrfDivide(tp_sum, true_sum)
        denom == RatAdd(prec, rec)
        f1 == IF denom.n = 0 THEN Zero
              ELSE RatDiv(RatMul(Rat(2, 1), RatMul(prec, rec)), denom)
    IN  [precision |-> prec, recall |-> rec, f1_score |-> f1]

\* one line of the report: the class's name, its precision tp / pred, its
\* recall tp / true and its support, from the counts of the class's column
\* (tp_sum, pred_sum and true_sum of precision_recall_fscore_support)
ReportCounts(label, tp_sum, pred_sum, true_sum) ==
    [label |-> label,
     precision |-> PrfDivide(tp_sum, pred_sum),
     recall |-> PrfDivide(tp_sum, true_sum),
     support |-> true_sum]
ReportLine(y_true, y_pred, target_names, c) ==
    ReportCounts(target_names[c], CountCol(BothRows(y_true, y_pred), c),
                 CountCol(y_pred, c), CountCol(y_true, c))

\* classification_report without target_names: the lines are labelled by the
\* class indices and no number of names is checked
classification_report_unnamed(y_true, y_pred, target_names) ==
    [raised |-> "",
     val |-> << [c \in 1..Width(y_true) |->
                    ReportLine(y_true, y_pred, [k \in 1..Width(y_true) |-> k], c)] >>]

\* sklearn's classification_report with target_names and no labels: a
\* ValueError when the number of names differs from the number of labels,
\* else one line per class
classification_report(y_true, y_pred, target_names) ==
    IF Len(target_names) # Width(y_true)
    THEN [raised |-> "ValueError", val |-> <<>>]
    ELSE [raised |-> "",
          val |-> << [c \in 1..Width(y_true) |->
                         ReportLine(y_true, y_pred, target_names, c)] >>]

\* _generic_epoch_end(step_outputs) with self.class_names = class_names, an
\* attribute that is <<>> while unset and <<names>> once set.  The result is
\* [raised, val]: val = <<metrics>> when nothing was raised.
_generic_epoch_end(step_outputs, class_names) ==
    LET all_targets == AllTargets(step_outputs)
        all_preds == AllPreds(step_outputs)
        all_loss == AllLoss(step_outputs)
        prf == precision_recall_fscore_support(all_targets, all_preds)
        conf_mats == multilabel_confusion_matrix(all_targets, all_preds)
    IN  IF Len(all_loss) = 0
        THEN [raised |-> "ZeroDivisionError", val |-> <<>>]
        ELSE IF class_names = <<>>
        THEN [raised |-> "AttributeError", val |-> <<>>]
        ELSE LET report == classification_report(all_targets, all_preds, class_names[1])
             IN  IF report.raised # ""
                 THEN [raised |-> report.raised, val |-> <<>>]
                 ELSE [raised |-> "",
                       val |-> << [precision |-> prf.precision,
                                   recall |-> prf.recall,
                                   f1_score |-> prf.f1_score,
                                   conf_mats |-> conf_mats,
                                   report |-> report.val[1],
                                   loss |-> RatDiv(RatSum(all_loss),
                                                   Rat(Len(all_loss), 1))] >>]

(***************************************************************************)
(* Telemetry.  The logger and self.log are collaborators; what the hooks   *)
(* hand them is recorded as [kind, tag, val, step]:                        *)
(*   "scalar"  a self.log call, tag <<name, split>>                        *)
(*   "hparams" a logger.log_hyperparams call, val its metrics dict (the    *)
(*             'best' record)                                              *)
(*   "figure"  a logger.experiment.add_figure call, val the grid's axes    *)
(***************************************************************************)
Scalar(name, split, v, step) ==
    [kind |-> "scalar", tag |-> <<name, split>>, val |-> v, step |-> step]
\* log_hyperparams takes no step
Best(metrics) ==
    [kind |-> "hparams", tag |-> <<"best_metrics">>,
     val |-> [loss |-> metrics.loss, precision |-> metrics.precision,
              recall |-> metrics.recall, f1_score |-> metrics.f1_score],
     step |-> 0]

MetricNames == {"loss", "precision", "recall", "f1_score"}

\* a class name is a run of one character: [ch, len]; label[0:20] keeps its
\* first TitleCut characters
Cut(label) == [ch |-> label.ch, len |-> Min2(label.len, TitleCut)]

\* the figure of log_metrics: plt.subplots(9, 5) with every axis switched off,
\* then one axis drawn per element of zip(conf_mats, self.class_names,
\* axs.ravel()), which stops at the shortest of the three.  [drawn, blank]:
\* the drawn axes in grid order, and the number of axes left switched off.
Zipped(conf_mats, class_names) ==
    Min2(Min2(Len(conf_mats), Len(class_names)), GridRows * GridCols)
Figure(conf_mats, class_names) ==
    LET n == Zipped(conf_mats, class_names)
    IN  [drawn |-> [a \in 1..n |-> [cm |-> conf_mats[a], title |-> Cut(class_names[a])]],
         blank |-> GridRows * GridCols - n]

\* the conf_mat_log text of log_metrics: one entry per zipped class
ConfMatLog(conf_mats, class_names) ==
    [a \in 1..Zipped(conf_mats, class_names) |->
        [label |-> class_names[a], cm |-> conf_mats[a]]]

\* log_metrics(metrics, split): what it hands the telemetry, in order
log_metrics(metrics, split, class_names, step) ==
    << Scalar("precision", split, metrics.precision, step),
       Scalar("recall", split, metrics.recall, step),
       Scalar("f1_score", split, metrics.f1_score, step),
       [kind |-> "figure", tag |-> <<"confusion matrix", split>>,
        val |-> Figure(metrics.conf_mats, class_names), step |-> step] >>

\* the log.info calls of log_metrics (the Python logger, not the telemetry)
log_metrics_info(metrics, split, class_names, epoch) ==
    << [msg |-> "epoch", split |-> split, val |-> epoch],
       [msg |-> "report", split |-> split, val |-> metrics.report],
       [msg |-> "conf_mats", split |-> split,
        val |-> ConfMatLog(metrics.conf_mats, class_names)] >>

(***************************************************************************)
(* Best-metric tracking.                                                   *)
(***************************************************************************)
\* init_metrics of on_train_start
init_metrics ==
    [loss |-> Rat(InitLoss, 1), precision |-> Zero, recall |-> Zero,
     f1_score |-> Zero]

\* the comparison of update_best_metric: the value of its local `update`
ShouldUpdate(mode, value, best) ==
    \/ mode = "min" /\ RatLess(value, best)
    \/ mode = "max" /\ RatLess(best, value)

\* the new best read under a fixed key: self.best_metric = metrics["loss"]
update_best_metric_loss_key(monitor, best_metric, metrics) ==
    IF monitor.mode \notin {"min", "max"}
    THEN [raised |-> "", emitted |-> <<>>, best_metric |-> best_metric]
    ELSE IF monitor.name \notin MetricNames
    THEN [raised |-> "KeyError", emitted |-> <<>>, best_metric |-> best_metric]
    ELSE IF best_metric = <<>>
    THEN [raised |-> "AttributeError", emitted |-> <<>>, best_metric |-> best_metric]
    ELSE IF ShouldUpdate(monitor.mode, metrics[monitor.name], best_metric[1])
    THEN [raised |-> "", emitted |-> << Best(metrics) >>,
          best_metric |-> << metrics.loss >>]
    ELSE [raised |-> "", emitted |-> <<>>, best_metric |-> best_metric]

\* update_best_metric(metrics) with self.cfg.monitor = monitor and
\* self.best_metric = best_metric (<<>> while the attribute is unset):
\* [raised, emitted, best_metric], the records handed to the logger and the
\* attribute afterwards.  `mode == ... and metrics[name] < self.best_metric`
\* reads metrics[name], then self.best_metric, only for a mode it matches.
update_best_metric(monitor, best_metric, metrics) ==
    IF monitor.mode \notin {"min", "max"}
    THEN [raised |-> "", emitted |-> <<>>, best_metric |-> best_metric]
    ELSE IF monitor.name \notin MetricNames
    THEN [raised |-> "KeyError", emitted |-> <<>>, best_metric |-> best_metric]
    ELSE IF best_metric = <<>>
    THEN [raised |-> "AttributeError", emitted |-> <<>>, best_metric |-> best_metric]
    ELSE IF ShouldUpdate(monitor.mode, metrics[monitor.name], best_metric[1])
    THEN [raised |-> "", emitted |-> << Best(metrics) >>,
          best_metric |-> << metrics[monitor.name] >>]
    ELSE [raised |-> "", emitted |-> <<>>, best_metric |-> best_metric]

(***************************************************************************)
(* configure_optimizers.                                                   *)
(***************************************************************************)
\* an unknown name falls back to Adam
configure_optimizers_fallback(cfg_optimizer) ==
    IF cfg_optimizer.name = "sgd"
    THEN [raised |-> "", val |-> << [kind |-> "SGD", lr |-> cfg_optimizer.lr] >>]
    ELSE [raised |-> "", val |-> << [kind |-> "Adam", lr |-> cfg_optimizer.lr] >>]

\* configure_optimizers with self.cfg.optimizer = cfg_optimizer: [raised,
\* val], val = <<the optimizer>>, an optim.Adam or optim.SGD over the model's
\* parameters with lr = cfg.optimizer.lr
configure_optimizers(cfg_optimizer) ==
    IF cfg_optimizer.name = "adam"
    THEN [raised |-> "", val |-> << [kind |-> "Adam", lr |-> cfg_optimizer.lr] >>]
    ELSE IF cfg_optimizer.name = "sgd"
    THEN [raised |-> "", val |-> << [kind |-> "SGD", lr |-> cfg_optimizer.lr] >>]
    ELSE [raised |-> "ValueError", val |-> <<>>]

(***************************************************************************)
(* The run: one LitModel instance driven by a trainer.                     *)
(***************************************************************************)
VARIABLES
    monitor,          \* self.cfg.monitor: [mode, name]
    dataset_names,    \* trainer.train_dataloader.dataset.datasets.class_names
    run,              \* the trainer's entry point: "fit", "validate", "test"
    pc,               \* where the trainer is in its sequence of hooks
    sanity_checking,  \* self.trainer.sanity_checking
    current_epoch,    \* self.current_epoch
    global_step,      \* self.global_step: training batches done
    outputs,          \* the step outputs the trainer holds per split
    best_metric,      \* self.best_metric: <<>> while unset, else <<value>>
    class_names,      \* self.class_names: <<>> while unset, else <<names>>
    telemetry,        \* what self.log and self.logger were handed, in order
    log_info,         \* what log.info was handed, in order
    last,             \* the last hook run: its name, its calls, what it raised
    updates,          \* one entry per update_best_metric call of the run
    agg_in,           \* a buffer handed to the aggregation on its own
    agg_out,          \* <<>>, or <<its result>>
    optimizer_cfg,    \* self.cfg.optimizer: [name, lr]
    optimizer         \* the optimizer the trainer holds: <<>>, or <<it>>

vars == <<monitor, dataset_names, run, pc, sanity_checking, current_epoch,
          global_step, outputs, best_metric, class_names, telemetry, log_info,
          last, updates, agg_in, agg_out, optimizer_cfg, optimizer>>

Modes == {"min", "max", "avg"}
Names == MetricNames \cup {"accuracy"}
Runs == {"fit", "validate", "test"}
OptimizerNames == {"adam", "sgd", "rmsprop"}
\* learning rates, in units of 1e-4
LearningRates == {1, 2}

\* class c's name: TitleCut - 1 + c characters
ClassName(c) == [ch |-> c, len |-> TitleCut - 1 + c]
DatasetNames(k) == [c \in 1..k |-> ClassName(c)]

\* the batches the data loaders deliver, as step outputs: one sample each
GoodBatch == _generic_step(3, << Row(1) >>, << Row(1) >>)
HalfBatch == _generic_step(2, << Row1(1, 0) >>, << Row(1) >>)
BadBatch == _generic_step(InitLoss + 1, << Row1(1, 0) >>, << Row1(0, 1) >>)
TrainBatches == {HalfBatch}
ValBatches == {GoodBatch, BadBatch}
TestBatches == {BadBatch}
\* the batches of the sanity pre-check (the first ones of the validation loader)
SanityBatches == {BadBatch}

NoOutputs == [train |-> <<>>, val |-> <<>>, test |-> <<>>]
Hook(name, sanity, calls, raised) ==
    [hook |-> name, sanity |-> sanity, calls |-> calls, raised |-> raised]

Init ==
    /\ monitor \in [mode : Modes, name : Names]
    /\ dataset_names \in {DatasetNames(k) : k \in {NumClasses - 1, NumClasses, NumClasses + 1}}
    /\ run \in Runs
    /\ optimizer_cfg \in [name : OptimizerNames, lr : LearningRates]
    /\ optimizer = <<>>
    /\ pc = CASE run = "fit" -> "configure_optimizers"
              [] run = "validate" -> "val"
              [] OTHER -> "test"
    /\ sanity_checking = FALSE
    /\ current_epoch = 0
    /\ global_step = 0
    /\ outputs = NoOutputs
    /\ best_metric = <<>>
    /\ class_names = <<>>
    /\ telemetry = <<>>
    /\ log_info = <<>>
    /\ last = Hook("__init__", FALSE, <<>>, "")
    /\ updates = <<>>
    /\ agg_in = <<>>
    /\ agg_out = <<>>

AggVars == <<agg_in, agg_out>>
ConfigVars == <<monitor, dataset_names, run, optimizer_cfg>>

\* the trainer of a fit run sets up its optimizer before any loop: it calls
\* configure_optimizers, holds what that returns, and starts the sanity
\* pre-check
setup_optimizers ==
    /\ pc = "configure_optimizers"
    /\ \E r \in {configure_optimizers(optimizer_cfg)} :
           IF r.raised # ""
           THEN /\ pc' = "failed"
                /\ last' = Hook("configure_optimizers", FALSE, <<>>, r.raised)
                /\ UNCHANGED <<optimizer, sanity_checking>>
           ELSE /\ optimizer' = r.val
                /\ sanity_checking' = TRUE
                /\ pc' = "sanity"
                /\ last' = Hook("configure_optimizers", FALSE, <<>>, "")
    /\ UNCHANGED <<ConfigVars, current_epoch, global_step, outputs, best_metric,
                   class_names, telemetry, log_info, updates, AggVars>>

\* on_train_start: the asserts, the placeholder record, best_metric, class_names
on_train_start ==
    /\ pc = "on_train_start"
    /\ IF monitor.mode \notin {"min", "max"} \/ monitor.name \notin MetricNames
       THEN /\ pc' = "failed"
            /\ last' = Hook("on_train_start", FALSE, <<>>, "AssertionError")
            /\ UNCHANGED <<telemetry, best_metric, class_names>>
       ELSE /\ telemetry' = Append(telemetry, Best(init_metrics))
            /\ best_metric' = << init_metrics[monitor.name] >>
            /\ class_names' = << dataset_names >>
            /\ pc' = "train"
            /\ last' = Hook("on_train_start", FALSE, <<"log_hyperparams">>, "")
    /\ UNCHANGED <<ConfigVars, sanity_checking, current_epoch, global_step,
                   outputs, log_info, updates, AggVars, optimizer>>

\* training_step: _generic_step, self.log("loss/train"), return outputs
training_step(batch) ==
    /\ pc = "train"
    /\ Len(outputs.train) < MaxBatches
    /\ outputs' = [outputs EXCEPT !.train = Append(@, batch)]
    /\ telemetry' = Append(telemetry,
                           Scalar("loss", "train", Rat(batch.loss, 1), global_step))
    /\ global_step' = global_step + 1
    /\ last' = Hook("training_step", FALSE, <<"_generic_step", "log">>, "")
    /\ UNCHANGED <<ConfigVars, pc, sanity_checking, current_epoch, best_metric,
                   class_names, log_info, updates, AggVars, optimizer>>

\* validation_step: _generic_step, self.log("loss/val"), return outputs.  The
\* trainer runs the validation loop in the sanity pre-check, in a validate
\* run, and in a fit epoch once the epoch's training batches are done.
validation_step(batch) ==
    /\ \/ pc \in {"sanity", "val"}
       \/ pc = "train" /\ Len(outputs.train) = MaxBatches
    /\ Len(outputs.val) < MaxBatches
    /\ pc' = IF pc = "train" THEN "val" ELSE pc
    /\ outputs' = [outputs EXCEPT !.val = Append(@, batch)]
    /\ telemetry' = Append(telemetry,
                           Scalar("loss", "val", Rat(batch.loss, 1), global_step))
    /\ last' = Hook("validation_step", sanity_checking, <<"_generic_step", "log">>, "")
    /\ UNCHANGED <<ConfigVars, sanity_checking, current_epoch, global_step,
                   best_metric, class_names, log_info, updates, AggVars,
                   optimizer>>

\* test_step written like the other two step hooks: it also logs its loss
test_step_logging(batch) ==
    /\ \/ pc = "test"
       \/ pc = "done" /\ run = "fit"
    /\ Len(outputs.test) < MaxBatches
    /\ pc' = "test"
    /\ run' = "test"
    /\ outputs' = [outputs EXCEPT !.test = Append(@, batch)]
    /\ telemetry' = Append(telemetry,
                           Scalar("loss", "test", Rat(batch.loss, 1), global_step))
    /\ last' = Hook("test_step", FALSE, <<"_generic_step", "log">>, "")
    /\ UNCHANGED <<monitor, dataset_names, optimizer_cfg, sanity_checking,
                   current_epoch,
                   global_step, best_metric, class_names, log_info,
                   updates, AggVars, optimizer>>

\* test_step: _generic_step, return outputs.  The trainer runs the test loop
\* in a test run, on a fresh module or on one whose fit run is over.
test_step(batch) ==
    /\ \/ pc = "test"
       \/ pc = "done" /\ run = "fit"
    /\ Len(outputs.test) < MaxBatches
    /\ pc' = "test"
    /\ run' = "test"
    /\ outputs' = [outputs EXCEPT !.test = Append(@, batch)]
    /\ last' = Hook("test_step", FALSE, <<"_generic_step">>, "")
    /\ UNCHANGED <<monitor, dataset_names, optimizer_cfg, sanity_checking,
                   current_epoch,
                   global_step, best_metric, class_names, telemetry, log_info,
                   updates, AggVars, optimizer>>

\* the four scalars of a metrics dict
Scalars(metrics) ==
    [loss |-> metrics.loss, precision |-> metrics.precision,
     recall |-> metrics.recall, f1_score |-> metrics.f1_score]

\* training_epoch_end: _generic_epoch_end, log_metrics(split="train").  The
\* trainer calls it after the epoch's validation loop, or after the training
\* batches in an epoch that runs no validation.
training_epoch_end ==
    /\ \/ pc = "training_epoch_end"
       \/ pc = "train" /\ Len(outputs.train) = MaxBatches
    /\ \E r \in {_generic_epoch_end(outputs.train, class_names)} :
           IF r.raised # ""
           THEN /\ pc' = "failed"
                /\ last' = Hook("training_epoch_end", FALSE,
                                <<"_generic_epoch_end">>, r.raised)
                /\ UNCHANGED <<telemetry, log_info, outputs, current_epoch>>
           ELSE /\ telemetry' = telemetry \o
                       log_metrics(r.val[1], "train", class_names[1], global_step)
                /\ log_info' = log_info \o
                       log_metrics_info(r.val[1], "train", class_names[1], current_epoch)
                /\ outputs' = [outputs EXCEPT !.train = <<>>]
                /\ current_epoch' = current_epoch + 1
                /\ pc' = IF current_epoch + 1 < MaxEpochs THEN "train" ELSE "done"
                /\ last' = Hook("training_epoch_end", FALSE,
                                <<"_generic_epoch_end", "log_metrics">>, "")
    /\ UNCHANGED <<ConfigVars, sanity_checking, global_step, best_metric,
                   class_names, updates, AggVars, optimizer>>

\* validation_epoch_end: nothing while the trainer is sanity checking, else
\* _generic_epoch_end, log_metrics(split="val"), update_best_metric
validation_epoch_end ==
    /\ pc \in {"sanity", "val"}
    /\ Len(outputs.val) = MaxBatches
    /\ IF sanity_checking
       THEN /\ sanity_checking' = FALSE
            /\ pc' = "on_train_start"
            /\ outputs' = [outputs EXCEPT !.val = <<>>]
            /\ last' = Hook("validation_epoch_end", TRUE, <<>>, "")
            /\ UNCHANGED <<telemetry, log_info, best_metric, updates>>
       ELSE \E r \in {_generic_epoch_end(outputs.val, class_names)} :
                IF r.raised # ""
                THEN /\ pc' = "failed"
                     /\ last' = Hook("validation_epoch_end", FALSE,
                                     <<"_generic_epoch_end">>, r.raised)
                     /\ UNCHANGED <<telemetry, log_info, best_metric, updates,
                                    outputs, sanity_checking>>
                ELSE \E u \in {update_best_metric(monitor, best_metric, r.val[1])} :
                     LET metrics == r.val[1]
                     IN  /\ telemetry' = telemetry \o
                                log_metrics(metrics, "val", class_names[1], global_step)
                                \o u.emitted
                         /\ log_info' = log_info \o
                                log_metrics_info(metrics, "val", class_names[1],
                                                 current_epoch)
                         /\ best_metric' = u.best_metric
                         /\ updates' = Append(updates,
                                [metrics |-> Scalars(metrics), before |-> best_metric,
                                 after |-> u.best_metric, emitted |-> u.emitted,
                                 raised |-> u.raised])
                         /\ last' = Hook("validation_epoch_end", FALSE,
                                         <<"_generic_epoch_end", "log_metrics",
                                           "update_best_metric">>, u.raised)
                         /\ pc' = IF u.raised # "" THEN "failed"
                                  ELSE IF run = "validate" THEN "done"
                                  ELSE "training_epoch_end"
                         /\ outputs' = [outputs EXCEPT !.val = <<>>]
                         /\ UNCHANGED sanity_checking
    /\ UNCHANGED <<ConfigVars, current_epoch, global_step, class_names, AggVars,
                   optimizer>>

\* test_epoch_end written as a copy of validation_epoch_end's body: it also
\* calls update_best_metric
test_epoch_end_tracking ==
    /\ pc = "test"
    /\ Len(outputs.test) = MaxBatches
    /\ \E r \in {_generic_epoch_end(outputs.test, class_names)} :
           IF r.raised # ""
           THEN /\ pc' = "failed"
                /\ last' = Hook("test_epoch_end", FALSE, <<"_generic_epoch_end">>,
                                r.raised)
                /\ UNCHANGED <<telemetry, log_info, outputs, best_metric, updates>>
           ELSE \E u \in {update_best_metric(monitor, best_metric, r.val[1])} :
                /\ telemetry' = telemetry \o
                       log_metrics(r.val[1], "test", class_names[1], global_step)
                       \o u.emitted
                /\ log_info' = log_info \o
                       log_metrics_info(r.val[1], "test", class_names[1], current_epoch)
                /\ best_metric' = u.best_metric
                /\ updates' = Append(updates,
                       [metrics |-> Scalars(r.val[1]), before |-> best_metric,
                        after |-> u.best_metric, emitted |-> u.emitted,
                        raised |-> u.raised])
                /\ outputs' = [outputs EXCEPT !.test = <<>>]
                /\ pc' = "done"
                /\ last' = Hook("test_epoch_end", FALSE,
                                <<"_generic_epoch_end", "log_metrics",
                                  "update_best_metric">>, u.raised)
    /\ UNCHANGED <<ConfigVars, sanity_checking, current_epoch, global_step,
                   class_names, AggVars, optimizer>>

\* test_epoch_end: _generic_epoch_end, log_metrics(split="test")
test_epoch_end ==
    /\ pc = "test"
    /\ Len(outputs.test) = MaxBatches
    /\ \E r \in {_generic_epoch_end(outputs.test, class_names)} :
           IF r.raised # ""
           THEN /\ pc' = "failed"
                /\ last' = Hook("test_epoch_end", FALSE, <<"_generic_epoch_end">>,
                                r.raised)
                /\ UNCHANGED <<telemetry, log_info, outputs>>
           ELSE /\ telemetry' = telemetry \o
                       log_metrics(r.val[1], "test", class_names[1], global_step)
                /\ log_info' = log_info \o
                       log_metrics_info(r.val[1], "test", class_names[1], current_epoch)
                /\ outputs' = [outputs EXCEPT !.test = <<>>]
                /\ pc' = "done"
                /\ last' = Hook("test_epoch_end", FALSE,
                                <<"_generic_epoch_end", "log_metrics">>, "")
    /\ UNCHANGED <<ConfigVars, sanity_checking, current_epoch, global_step,
                   best_metric, class_names, updates, AggVars, optimizer>>

Next ==
    \/ setup_optimizers
    \/ on_train_start
    \/ \E batch \in TrainBatches : training_step(batch)
    \/ \E batch \in (IF sanity_checking THEN SanityBatches ELSE ValBatches) :
          validation_step(batch)
    \/ \E batch \in TestBatches : test_step(batch)
    \/ training_epoch_end
    \/ validation_epoch_end
    \/ test_epoch_end

Spec == Init /\ [][Next]_vars

(***************************************************************************)
(* The aggregation on its own: _generic_epoch_end applied to every buffer  *)
(* of at most MaxSamples samples, in every split into batches.             *)
(***************************************************************************)
\* the logit rows of the buffers: every row of thresholded predictions
\* appears, from logits on both sides of the threshold and on it
AggLogitRows == {Row(1), Row(-1), Row1(1, 0), Row1(-1, 1)} \cup
                {r \in LogitRows : NumClasses = 2 /\ r[1] = 0 /\ r[2] = 1}
AggSamples == [t : TargetRows, l : AggLogitRows]
AggLossValues == {2}

\* the step outputs of a batch of k samples
AggBatches(k) ==
    { _generic_step(loss, [i \in 1..k |-> ss[i].t], [i \in 1..k |-> ss[i].l]) :
        loss \in AggLossValues, ss \in [1..k -> AggSamples] }

AggCount(step_outputs) == Len(AllTargets(step_outputs))

InitAgg ==
    /\ monitor = [mode |-> "min", name |-> "loss"]
    /\ dataset_names = DatasetNames(NumClasses)
    /\ run = "test"
    /\ optimizer_cfg = [name |-> "adam", lr |-> 1]
    /\ optimizer = <<>>
    /\ pc = "aggregate"
    /\ sanity_checking = FALSE
    /\ current_epoch = 0
    /\ global_step = 0
    /\ outputs = NoOutputs
    /\ best_metric = <<>>
    /\ class_names = << dataset_names >>
    /\ telemetry = <<>>
    /\ log_info = <<>>
    /\ last = Hook("__init__", FALSE, <<>>, "")
    /\ updates = <<>>
    /\ agg_in = <<>>
    /\ agg_out = <<>>

RunVars == <<monitor, dataset_names, run, pc, sanity_checking, current_epoch,
             global_step, outputs, best_metric, class_names, telemetry,
             log_info, last, updates, optimizer_cfg, optimizer>>

\* one more batch is buffered
AggStep(batch) ==
    /\ pc = "aggregate"
    /\ agg_out = <<>>
    /\ AggCount(agg_in) + Len(batch.targets) <= MaxSamples
    /\ agg_in' = Append(agg_in, batch)
    /\ UNCHANGED <<agg_out, RunVars>>

\* the buffer is reduced
AggEpochEnd ==
    /\ pc = "aggregate"
    /\ agg_out = <<>>
    /\ Len(agg_in) >= 1
    /\ agg_out' = << _generic_epoch_end(agg_in, class_names) >>
    /\ UNCHANGED <<agg_in, RunVars>>

\* the samples the buffer still takes
AggRoom == IF agg_out = <<>> THEN MaxSamples - AggCount(agg_in) ELSE 0

NextAgg ==
    \/ \E k \in 1..AggRoom : \E batch \in AggBatches(k) : AggStep(batch)
    \/ AggEpochEnd

SpecAgg == InitAgg /\ [][NextAgg]_vars

(***************************************************************************)
(* The test phase of a module whose fit run is over, on datasets of every  *)
(* width up to MaxClassCount: test_step and test_epoch_end, and with them  *)
(* log_metrics on 1..MaxClassCount classes.  telemetry and log_info hold   *)
(* what is handed over from the start of the test phase on.                *)
(***************************************************************************)
\* the test batches of a dataset of n classes, as step outputs: one sample each
WideBatches(n) ==
    { _generic_step(2, << [c \in 1..n |-> c % 2] >>, << [c \in 1..n |-> 1] >>),
      _generic_step(3, << [c \in 1..n |-> 1] >>,
                       << [c \in 1..n |-> IF c % 2 = 0 THEN 1 ELSE -1] >>) }

InitFig ==
    /\ monitor = [mode |-> "max", name |-> "f1_score"]
    /\ dataset_names \in {DatasetNames(n) : n \in 1..MaxClassCount}
    /\ run = "fit"
    /\ optimizer_cfg = [name |-> "adam", lr |-> 1]
    /\ optimizer = configure_optimizers(optimizer_cfg).val
    /\ pc = "done"
    /\ sanity_checking = FALSE
    /\ current_epoch = MaxEpochs
    /\ global_step = MaxEpochs * MaxBatches
    /\ outputs = NoOutputs
    /\ best_metric = << init_metrics[monitor.name] >>
    /\ class_names = << dataset_names >>
    /\ telemetry = <<>>
    /\ log_info = <<>>
    /\ last = Hook("training_epoch_end", FALSE,
                   <<"_generic_epoch_end", "log_metrics">>, "")
    /\ updates = <<>>
    /\ agg_in = <<>>
    /\ agg_out = <<>>

NextFig ==
    \/ \E batch \in WideBatches(Len(dataset_names)) : test_step(batch)
    \/ test_epoch_end

SpecFig == InitFig /\ [][NextFig]_vars

(***************************************************************************)
(* Properties of the run (specification Spec).                             *)
(***************************************************************************)
ValidMonitor == monitor.mode \in {"min", "max"} /\ monitor.name \in MetricNames
StepHooks == {"training_step", "validation_step", "test_step"}
BestRecords == SelectSeq(telemetry, LAMBDA rec : rec.kind = "hparams")
ScalarRecords == SelectSeq(telemetry, LAMBDA rec : rec.kind = "scalar")
ValFigures ==
    SelectSeq(telemetry,
              LAMBDA rec : rec.kind = "figure" /\ rec.tag = <<"confusion matrix", "val">>)

\* the monitored value of the i-th update_best_metric call, and whether that
\* call handed the logger a 'best' record
Value(i) == updates[i].metrics[monitor.name]
Fired(i) == updates[i].emitted # <<>>

\* every loss a batch of the run can have, and the largest ratio
FiniteValues ==
    {Rat(b.loss, 1) : b \in TrainBatches \cup ValBatches \cup TestBatches} \cup {Rat(1, 1)}
\* v stands for +infinity: it exceeds every finite value of the run
IsInfinite(v) == \A f \in FiniteValues : RatLess(f, v)

\* C1: with mode = max and any of the four names, after on_train_start
\* best_metric is max(v1..vn, initial=0) of the monitored values handed to
\* update_best_metric so far, and the i-th call fires exactly when vi exceeds
\* 0 and every earlier value.
C1_MaxModeTracksMaximum ==
    (monitor.mode = "max" /\ monitor.name \in MetricNames /\ best_metric # <<>>) =>
        /\ \A i \in 1..Len(updates) : ~RatLess(best_metric[1], Value(i))
        /\ best_metric[1] = Zero \/ \E i \in 1..Len(updates) : best_metric[1] = Value(i)
        /\ \A i \in 1..Len(updates) :
              Fired(i) <=> /\ RatLess(Zero, Value(i))
                           /\ \A j \in 1..(i - 1) : RatLess(Value(j), Value(i))

\* C2: with mode = min and any of the four names, best_metric starts at
\* +infinity after on_train_start, is min(v1..vn) after n >= 1 calls of
\* update_best_metric, and the i-th call fires exactly when vi is below every
\* earlier value (so the first call always fires).
C2_MinModeTracksMinimum ==
    (monitor.mode = "min" /\ monitor.name \in MetricNames /\ best_metric # <<>>) =>
        /\ updates = <<>> => IsInfinite(best_metric[1])
        /\ updates # <<>> =>
              /\ \A i \in 1..Len(updates) : ~RatLess(Value(i), best_metric[1])
              /\ \E i \in 1..Len(updates) : best_metric[1] = Value(i)
        /\ \A i \in 1..Len(updates) :
              Fired(i) <=> \A j \in 1..(i - 1) : RatLess(Value(i), Value(j))

\* C3: during the sanity pre-check and at its end, no scalar record has been
\* handed to the telemetry, update_best_metric has not been called and
\* best_metric is as before the phase (unset).
C3_SanityPhaseSilent ==
    (sanity_checking \/ pc = "on_train_start") =>
        /\ ScalarRecords = <<>>
        /\ updates = <<>>
        /\ best_metric = <<>>

\* C4, in a fit run: with a monitor whose mode or name is not recognised, no
\* step hook ever processes a batch, no telemetry record is emitted and
\* best_metric is never set.
C4_InvalidMonitorFailsBeforeAnyBatch ==
    (run = "fit" /\ ~ValidMonitor) =>
        /\ last.hook \notin StepHooks
        /\ outputs = NoOutputs
        /\ telemetry = <<>>
        /\ best_metric = <<>>

\* C5 as stated, in a fit run: every validation_epoch_end outside the sanity
\* pre-check calls _generic_epoch_end, log_metrics and update_best_metric, in
\* that order and once each; no other hook calls update_best_metric.
C5_EveryValidationEndUpdates ==
    run = "fit" =>
        /\ (last.hook = "validation_epoch_end" /\ ~last.sanity) =>
              last.calls = <<"_generic_epoch_end", "log_metrics", "update_best_metric">>
        /\ ~(last.hook = "validation_epoch_end" /\ ~last.sanity) =>
              \A k \in DOMAIN last.calls : last.calls[k] # "update_best_metric"

\* C5 as amended: a validation_epoch_end outside the sanity pre-check whose
\* aggregation returns calls _generic_epoch_end, log_metrics and
\* update_best_metric, in that order and once each; one whose aggregation
\* raises calls only _generic_epoch_end; no other hook, and no
\* validation_epoch_end of the sanity pre-check, calls update_best_metric; so
\* the run has as many update_best_metric calls as validation phases whose
\* log_metrics(split="val") ran.
C5_ValidationEndUpdatesOnce ==
    /\ (last.hook = "validation_epoch_end" /\ ~last.sanity) =>
          \/ last.calls = <<"_generic_epoch_end", "log_metrics", "update_best_metric">>
          \/ last.calls = <<"_generic_epoch_end">> /\ last.raised # ""
    /\ ~(last.hook = "validation_epoch_end" /\ ~last.sanity) =>
          \A k \in DOMAIN last.calls : last.calls[k] # "update_best_metric"
    /\ Len(updates) = Len(ValFigures)

\* a second validation phase of a fit run has ended and updated
C5_Witness ==
    /\ last.hook = "validation_epoch_end"
    /\ ~last.sanity
    /\ last.raised = ""
    /\ Len(updates) = 2

\* C6: each update_best_metric call hands the logger a 'best' record exactly
\* when it replaces best_metric; the record is the four scalars of the bundle
\* passed to that call and best_metric becomes that bundle's metrics[name];
\* a call whose comparison fails changes neither; and the telemetry ends with
\* that record exactly when the validation phase's call fired.
C6_BestRecordIffReplaced ==
    /\ \A i \in 1..Len(updates) :
          LET u == updates[i]
          IN  /\ (u.emitted # <<>>) <=> (u.after # u.before)
              /\ u.emitted # <<>> =>
                    /\ u.emitted = << Best(u.metrics) >>
                    /\ u.after = << u.metrics[monitor.name] >>
              /\ u.emitted = <<>> => u.after = u.before
    /\ (last.hook = "validation_epoch_end" /\ ~last.sanity /\ last.raised = "") =>
          /\ best_metric = updates[Len(updates)].after
          /\ IF Fired(Len(updates))
             THEN telemetry[Len(telemetry)] = Best(updates[Len(updates)].metrics)
             ELSE telemetry[Len(telemetry)].kind = "figure"

\* a run whose first validation phase updated and whose second did not
C6_Witness ==
    /\ Len(updates) = 2
    /\ Fired(1)
    /\ ~Fired(2)
    /\ updates[2].metrics # updates[1].metrics

\* C7: once on_train_start has set best_metric, the run's first 'best' record
\* is the placeholder, with loss +infinity and precision, recall and f1_score
\* 0, and it was handed over before any validation phase could update.
C7_PlaceholderLossInfinite ==
    best_metric # <<>> =>
        /\ BestRecords # <<>>
        /\ IsInfinite(BestRecords[1].val.loss)
        /\ BestRecords[1].val.precision = Zero
        /\ BestRecords[1].val.recall = Zero
        /\ BestRecords[1].val.f1_score = Zero
        /\ Len(BestRecords) = 1 + Cardinality({i \in 1..Len(updates) : Fired(i)})

\* C8: a monitor pairing mode = max with name = loss, or mode = min with
\* another name, is rejected at run start: the run never sets best_metric
\* and never tracks.
MismatchedPairing ==
    \/ monitor.mode = "max" /\ monitor.name = "loss"
    \/ monitor.mode = "min" /\ monitor.name \in MetricNames \ {"loss"}
C8_MismatchedPairingRejected ==
    MismatchedPairing =>
        /\ best_metric = <<>>
        /\ updates = <<>>

(***************************************************************************)
(* Properties of the aggregation (specification SpecAgg).  The counts are  *)
(* taken from the buffer itself, sample by sample.                         *)
(***************************************************************************)
\* the samples of the buffer: <<batch, row>>
BufferSamples ==
    {s \in (DOMAIN agg_in) \X (1..MaxSamples) : s[2] <= Len(agg_in[s[1]].targets)}
TargetOf(s, c) == agg_in[s[1]].targets[s[2]][c]
\* sigmoid(logit) > 0.5
PredOf(s, c) == IF agg_in[s[1]].logits[s[2]][c] > 0 THEN 1 ELSE 0
\* samples of class c with target t and prediction p
CountClass(c, t, p) ==
    Cardinality({s \in BufferSamples : TargetOf(s, c) = t /\ PredOf(s, c) = p})
\* class-sample pairs with target t and prediction p
CountAll(t, p) ==
    Cardinality({sc \in BufferSamples \X Classes :
                    TargetOf(sc[1], sc[2]) = t /\ PredOf(sc[1], sc[2]) = p})

Returned == agg_out # <<>> /\ agg_out[1].raised = ""
Bundle == agg_out[1].val[1]
Reversed(step_outputs) ==
    [k \in DOMAIN step_outputs |-> step_outputs[Len(step_outputs) + 1 - k]]
\* the same samples in one batch
Merged(step_outputs) ==
    << _generic_step(step_outputs[1].loss, AllTargets(step_outputs),
                     Concat([k \in DOMAIN step_outputs |-> step_outputs[k].logits])) >>
Prf(metrics) ==
    [precision |-> metrics.precision, recall |-> metrics.recall,
     f1_score |-> metrics.f1_score]

\* C9: the bundle _generic_epoch_end returns has num_classes confusion
\* matrices, class c's being [[TN, FP], [FN, TP]] counted over column c of the
\* buffer's samples, and its four cells sum to the number of samples.
C9_ConfusionMatrixPerClass ==
    Returned =>
        /\ Len(Bundle.conf_mats) = NumClasses
        /\ \A c \in Classes :
              /\ Bundle.conf_mats[c] =
                    << <<CountClass(c, 0, 0), CountClass(c, 0, 1)>>,
                       <<CountClass(c, 1, 0), CountClass(c, 1, 1)>> >>
              /\ Bundle.conf_mats[c][1][1] + Bundle.conf_mats[c][1][2]
                    + Bundle.conf_mats[c][2][1] + Bundle.conf_mats[c][2][2]
                 = Cardinality(BufferSamples)

\* two batches were reduced, with a false positive and a false negative in
\* one class
C9_Witness ==
    /\ Returned
    /\ Len(agg_in) = 2
    /\ \E c \in Classes : CountClass(c, 0, 1) = 1 /\ CountClass(c, 1, 0) = 1

\* the buffer holds exactly the samples of targets [[1,0],[1,1]] and
\* predictions [[1,0],[0,1]]
IsExample ==
    /\ NumClasses = 2
    /\ Cardinality(BufferSamples) = 2
    /\ \E s \in BufferSamples :
          /\ TargetOf(s, 1) = 1 /\ TargetOf(s, 2) = 0
          /\ PredOf(s, 1) = 1 /\ PredOf(s, 2) = 0
    /\ \E s \in BufferSamples :
          /\ TargetOf(s, 1) = 1 /\ TargetOf(s, 2) = 1
          /\ PredOf(s, 1) = 0 /\ PredOf(s, 2) = 1

\* C10: the returned precision, recall and F1 are the micro-averages over
\* all class-sample pairs of all batches: TP/(TP+FP), TP/(TP+FN) and
\* 2TP/(2TP+FP+FN) wherever the denominator is not 0; the example gives 1, 2/3
\* and 4/5; and the three are the same for the batches in reverse order and
\* for the same samples in one batch.
C10_MicroAverages ==
    Returned =>
        LET TP == CountAll(1, 1)
            FP == CountAll(0, 1)
            FN == CountAll(1, 0)
        IN  /\ TP + FP > 0 => Bundle.precision = Rat(TP, TP + FP)
            /\ TP + FN > 0 => Bundle.recall = Rat(TP, TP + FN)
            /\ 2 * TP + FP + FN > 0 => Bundle.f1_score = Rat(2 * TP, 2 * TP + FP + FN)
            /\ IsExample =>
                  /\ TP = 2 /\ FP = 0 /\ FN = 1
                  /\ Bundle.precision = Rat(1, 1)
                  /\ Bundle.recall = Rat(2, 3)
                  /\ Bundle.f1_score = Rat(4, 5)
            /\ \A reversed \in {_generic_epoch_end(Reversed(agg_in), class_names)} :
                  Prf(reversed.val[1]) = Prf(Bundle)
            /\ \A merged \in {_generic_epoch_end(Merged(agg_in), class_names)} :
                  Prf(merged.val[1]) = Prf(Bundle)

\* the example was reduced from two batches
C10_Witness ==
    /\ Returned
    /\ IsExample
    /\ Len(agg_in) = 2

\* class c was never a target and never predicted in the buffer
Degenerate(c) ==
    CountClass(c, 1, 0) + CountClass(c, 1, 1) + CountClass(c, 0, 1) = 0

\* C11: a buffer with a class whose targets and predictions are all zero is
\* reduced without an error; that class's precision and recall in the report
\* are 0 and its confusion matrix is [[N, 0], [0, 0]] for the N samples; and
\* the micro-averaged precision is 0 when TP + FP = 0 over the whole buffer,
\* the micro-averaged recall 0 when TP + FN = 0.
C11_DegenerateClassYieldsZero ==
    agg_out # <<>> =>
        \A tp \in {CountAll(1, 1)}, fp \in {CountAll(0, 1)}, fn \in {CountAll(1, 0)},
           degenerate \in {{c \in Classes : Degenerate(c)}} :
            /\ degenerate # {} => agg_out[1].raised = ""
            /\ tp + fp = 0 \/ tp + fn = 0 => agg_out[1].raised = ""
            /\ Returned =>
                  /\ \A c \in degenerate :
                        /\ Bundle.report[c].precision = Zero
                        /\ Bundle.report[c].recall = Zero
                        /\ Bundle.conf_mats[c] =
                              << <<Cardinality(BufferSamples), 0>>, <<0, 0>> >>
                  /\ tp + fp = 0 => Bundle.precision = Zero
                  /\ tp + fn = 0 => Bundle.recall = Zero

\* MaxSamples samples were reduced, one class never a target and never
\* predicted, and no class predicted at all while some class was a target
C11_Witness ==
    /\ Returned
    /\ Cardinality(BufferSamples) = MaxSamples
    /\ \E c \in Classes : Degenerate(c)
    /\ CountAll(1, 1) + CountAll(0, 1) = 0
    /\ CountAll(1, 0) > 0

(***************************************************************************)
(* Further properties of the run (specification Spec).                     *)
(***************************************************************************)
EpochEndHooks == {"training_epoch_end", "validation_epoch_end", "test_epoch_end"}
\* the number of class names the module holds differs from the data's width
NamesMismatch == class_names # <<>> /\ Len(class_names[1]) # NumClasses
\* this step is a run of a phase-end hook
EpochEndRuns == last' # last /\ last'.hook \in EpochEndHooks

\* C12: while the number of class names differs from num_classes, every
\* phase-end hook fails inside _generic_epoch_end with the ValueError of
\* classification_report, the run ends there, nothing is handed to the
\* telemetry or to log.info, update_best_metric is not called and
\* best_metric is unchanged.
C12_NameCountMismatchFailsPhaseEnd ==
    [][ NamesMismatch /\ EpochEndRuns =>
            /\ last'.raised = "ValueError"
            /\ last'.calls = <<"_generic_epoch_end">>
            /\ pc' = "failed"
            /\ telemetry' = telemetry
            /\ log_info' = log_info
            /\ updates' = updates
            /\ best_metric' = best_metric ]_vars

\* a validation phase end failed on the name count after the training and
\* the validation batches were logged: the telemetry ends with a batch's loss
C12_Witness ==
    /\ NamesMismatch
    /\ last.hook = "validation_epoch_end"
    /\ last.raised = "ValueError"
    /\ pc = "failed"
    /\ global_step = MaxBatches
    /\ telemetry[Len(telemetry)].tag = <<"loss", "val">>

\* the hooks that never call update_best_metric
FrameHooks == {"training_step", "validation_step", "test_step",
               "training_epoch_end", "test_epoch_end"}

\* C13: once on_train_start has set best_metric, a step changes it only by
\* the update_best_metric call of a non-sanity validation_epoch_end, whose
\* result it then holds; training_step, validation_step, test_step,
\* training_epoch_end, test_epoch_end and a sanity validation_epoch_end leave
\* it as it is, and it is never unset again.
C13_BestMetricFrame ==
    [][ /\ last'.hook \in FrameHooks \/ last'.sanity => best_metric' = best_metric
        /\ best_metric # <<>> => best_metric' # <<>>
        /\ best_metric # <<>> /\ best_metric' # best_metric =>
              /\ last'.hook = "validation_epoch_end"
              /\ last'.calls = <<"_generic_epoch_end", "log_metrics",
                                 "update_best_metric">>
              /\ Len(updates') = Len(updates) + 1
              /\ updates'[Len(updates')].after = best_metric' ]_vars

\* update_best_metric replaced best_metric, and a training_epoch_end, a
\* test_step and a test_epoch_end that returned came after it
C13_Witness ==
    /\ last.hook = "test_epoch_end"
    /\ last.raised = ""
    /\ current_epoch >= 1
    /\ \E i \in 1..Len(updates) : Fired(i)
    /\ best_metric = updates[Len(updates)].after
    /\ best_metric # << init_metrics[monitor.name] >>

\* the running-loss records of a split, in the order they were emitted
LossRecords(split) ==
    SelectSeq(telemetry, LAMBDA rec : rec.kind = "scalar" /\ rec.tag = <<"loss", split>>)
\* the last k elements of a sequence
LastOf(seq, k) == SubSeq(seq, Len(seq) - k + 1, Len(seq))
\* the phase's buffer and its running-loss records agree, batch by batch
BufferLogged(split) ==
    /\ Len(LossRecords(split)) >= Len(outputs[split])
    /\ LastOf(LossRecords(split), Len(outputs[split])) =
          [k \in 1..Len(outputs[split]) |->
              Scalar("loss", split, Rat(outputs[split][k].loss, 1),
                     LossRecords(split)[Len(LossRecords(split))
                                          - Len(outputs[split]) + k].step)]
\* this step buffers one more step output b of the split and leaves the
\* buffered ones as they are
Buffers(split, b) ==
    outputs' = [outputs EXCEPT ![split] = Append(@, b)]
\* the phase-end records of a split: the scalars and the figure of log_metrics
PhaseEndRecords(seq, split) ==
    SelectSeq(seq, LAMBDA rec : rec.kind \in {"scalar", "figure"}
                                /\ rec.tag[1] # "loss" /\ rec.tag[2] = split)

SupportedOptimizers == {"adam", "sgd"}
\* the optimizer class configure_optimizers builds for a supported name
OptimizerKind(name) == IF name = "adam" THEN "Adam" ELSE "SGD"
NoBatchProcessed ==
    outputs = NoOutputs /\ telemetry = <<>> /\ global_step = 0

\* C15: a configure_optimizers call with optimizer.name outside {adam, sgd}
\* raises ValueError and ends the run there, with no optimizer set up and no
\* batch processed, and no step follows it; a fit run with such a name never
\* processes a batch; with adam or sgd the call returns an optim.Adam or
\* optim.SGD whose lr is cfg.optimizer.lr, which the trainer then holds.
C15_UnsupportedOptimizerIsFatal ==
    /\ [](/\ last.hook = "configure_optimizers" =>
                IF optimizer_cfg.name \in SupportedOptimizers
                THEN /\ last.raised = ""
                     /\ optimizer = << [kind |-> OptimizerKind(optimizer_cfg.name),
                                        lr |-> optimizer_cfg.lr] >>
                     /\ pc = "sanity"
                ELSE /\ last.raised = "ValueError"
                     /\ optimizer = <<>>
                     /\ pc = "failed"
                     /\ NoBatchProcessed
          /\ run = "fit" /\ optimizer_cfg.name \notin SupportedOptimizers =>
                /\ NoBatchProcessed
                /\ optimizer = <<>>
          /\ optimizer # <<>> =>
                /\ optimizer[1].lr = optimizer_cfg.lr
                /\ optimizer[1].kind = OptimizerKind(optimizer_cfg.name)
                /\ optimizer_cfg.name \in SupportedOptimizers)
    /\ [][~(last.hook = "configure_optimizers" /\ last.raised # "")]_vars

\* configure_optimizers was called with the name rmsprop and raised
C15_Witness ==
    /\ optimizer_cfg.name = "rmsprop"
    /\ last.hook = "configure_optimizers"
    /\ last.raised = "ValueError"
    /\ pc = "failed"

\* C17: once on_train_start has set best_metric, the last 'best' record
\* handed to the logger carries, under the monitored name, the value
\* best_metric holds, whatever the mode and the name and however many
\* validation epochs have run.
C17_LatestBestRecordMatchesTracker ==
    best_metric # <<>> =>
        /\ BestRecords # <<>>
        /\ BestRecords[Len(BestRecords)].val[monitor.name] = best_metric[1]

\* a validation epoch replaced the best and a later one did not: the last
\* 'best' record is the first epoch's
C17_Witness ==
    /\ Len(updates) = 2
    /\ Fired(1)
    /\ ~Fired(2)
    /\ updates[2].raised = ""
    /\ Len(BestRecords) = 2
    /\ best_metric = << Value(1) >>
    /\ Value(2) # Value(1)

\* C18: in a fit run, a validate-only run and a test-only run alike, a
\* training_epoch_end, a non-sanity validation_epoch_end or a test_epoch_end
\* runs only after on_train_start has set class_names and best_metric, so
\* none of them fails on reading an attribute that is not there.
C18_PhaseEndAfterTrainStart ==
    last.hook \in EpochEndHooks /\ ~last.sanity =>
        /\ class_names # <<>>
        /\ best_metric # <<>>
        /\ last.raised # "AttributeError"

(***************************************************************************)
(* Properties of the logged test phase (specification SpecFig).            *)
(***************************************************************************)
Figures == SelectSeq(telemetry, LAMBDA rec : rec.kind = "figure")
\* the entries log.info was handed under a message
InfoOf(msg) == SelectSeq(log_info, LAMBDA e : e.msg = msg)
Max2(a, b) == IF a > b THEN a ELSE b

\* C16: whatever the number of classes, the figure log_metrics submits has
\* one drawn axis per class, axis i holding class i's matrix under the first
\* TitleCut characters of class i's name, every other axis of the grid
\* blank; the textual dump has an entry for every class; and the figure is
\* one record tagged with the split and the step.
C16_OneSubplotPerClass ==
    last.hook = "test_epoch_end" /\ last.raised = "" =>
        LET names == class_names[1]
            n == Len(names)
        IN  /\ Len(Figures) = 1
            /\ Figures[1].tag = <<"confusion matrix", "test">>
            /\ Figures[1].step = global_step
            /\ Len(InfoOf("report")) = 1
            /\ Len(InfoOf("report")[1].val) = n
            /\ Len(InfoOf("conf_mats")) = 1
            /\ Len(Figures[1].val.drawn) = n
            /\ Figures[1].val.blank = Max2(GridRows * GridCols - n, 0)
            /\ Len(InfoOf("conf_mats")[1].val) = n
            /\ \A i \in 1..n :
                  /\ i \in DOMAIN Figures[1].val.drawn
                  /\ i \in DOMAIN InfoOf("conf_mats")[1].val
                  /\ Figures[1].val.drawn[i].title = Cut(names[i])
                  /\ Figures[1].val.drawn[i].title.len = Min2(names[i].len, TitleCut)
                  /\ InfoOf("conf_mats")[1].val[i].label = names[i]
                  /\ Figures[1].val.drawn[i].cm = InfoOf("conf_mats")[1].val[i].cm
                  /\ Figures[1].val.drawn[i].cm[2][1] + Figures[1].val.drawn[i].cm[2][2]
                        = InfoOf("report")[1].val[i].support

====
